---- MODULE Spec2Model ----
(***************************************************************************)
(* A model of src/src/App.js, the single React component of the "Smart     *)
(* Nearby Places Recommender": the component's state (useState cells and   *)
(* the three localStorage documents), its event handlers, the asynchronous *)
(* place search and location search with their retry loop, and the         *)
(* visiblePlaces filter/sort pipeline.                                     *)
(*                                                                         *)
(* Conventions.                                                            *)
(*  - A JavaScript string is a sequence of one-character strings.          *)
(*  - An optional JSON field is <<>> when absent and <<v>> when present.   *)
(*  - All coordinates of the model lie on one meridian (longitude          *)
(*    Meridian); a latitude is given as its arc length in metres from the  *)
(*    equator, so that the haversine distance of two points is the         *)
(*    absolute difference of their latitudes.                              *)
(*  - A JavaScript number that is a quotient (relevance, mean stars) is    *)
(*    kept as an exact fraction [num, den] and compared as a fraction.     *)
(***************************************************************************)
EXTENDS Integers, Sequences, FiniteSets, TLC

\* ------------------------------------------------------------------ bounds
\* Horizon of the logical clock: every handler or callback runs at a later
\* tick than the previous one, and Date.now() returns the tick.
MaxNow == 5
\* Requests of one kind (place search, location search) in flight at once.
MaxInFlight == 2
\* Favorites kept at once, and reviews kept per place.
MaxFavs == 2
MaxReviews == 2
\* The largest number of tries fetchWithRetry is examined with on its own.
MaxTries == 4

\* --------------------------------------------------------------- strings
Str_cafe == <<"c", "a", "f", "e">>
Str_CornerCafe == <<"C", "o", "r", "n", "e", "r", " ", "C", "a", "f", "e">>
Str_BookStore == <<"B", "o", "o", "k", " ", "S", "t", "o", "r", "e">>
Str_Museum == <<"M", "u", "s", "e", "u", "m">>
Str_UnnamedPlace ==
    <<"U", "n", "n", "a", "m", "e", "d", " ", "P", "l", "a", "c", "e">>
Str_ok == <<"o", "k">>
Str_blank == <<" ", " ">>
Str_okPadded == <<" ", "o", "k">>
Str_Goa == <<"G", "o", "a">>
Str_cafePadded == <<"c", "a", "f", "e", " ">>

UpperCase == <<"B", "C", "G", "M", "P", "S", "U">>
LowerCase == <<"b", "c", "g", "m", "p", "s", "u">>

\* String.prototype.toLowerCase, one character.
LowerOf ==
    [c \in {UpperCase[i] : i \in 1..Len(UpperCase)} |->
        LowerCase[CHOOSE i \in 1..Len(UpperCase) : UpperCase[i] = c]]

LowerChar(c) == IF c \in DOMAIN LowerOf THEN LowerOf[c] ELSE c

toLowerCase(s) == [i \in 1..Len(s) |-> LowerChar(s[i])]

\* A trim that strips nothing.
trim_Identity(s) == s

\* String.prototype.trim: drops the white space at both ends.
RECURSIVE trimStart(_)
trimStart(s) ==
    IF s # <<>> /\ Head(s) = " " THEN trimStart(Tail(s)) ELSE s

RECURSIVE trimEnd(_)
trimEnd(s) ==
    IF s # <<>> /\ s[Len(s)] = " " THEN trimEnd(SubSeq(s, 1, Len(s) - 1)) ELSE s

trim(s) == trimEnd(trimStart(s))

\* String.prototype.includes: q occurs in s as a contiguous substring.
includes(s, q) ==
    \E i \in 1..(Len(s) - Len(q) + 1) : SubSeq(s, i, i + Len(q) - 1) = q

\* Collation rank of a character at the primary level (case ignored):
\* white space sorts before letters, letters alphabetically.
Alphabet == <<" ", "a", "b", "c", "d", "e", "f", "g", "h", "i", "j", "k",
              "l", "m", "n", "o", "p", "q", "r", "s", "t", "u", "v", "w",
              "x", "y", "z">>
RankOf ==
    [c \in {Alphabet[i] : i \in 1..Len(Alphabet)} |->
        CHOOSE i \in 1..Len(Alphabet) : Alphabet[i] = c]

Rank(c) == RankOf[LowerChar(c)]

Sign(n) == IF n < 0 THEN -1 ELSE IF n > 0 THEN 1 ELSE 0

RECURSIVE PrimaryCompare(_, _)
PrimaryCompare(a, b) ==
    IF a = <<>> THEN (IF b = <<>> THEN 0 ELSE -1)
    ELSE IF b = <<>> THEN 1
    ELSE IF Rank(Head(a)) # Rank(Head(b)) THEN Sign(Rank(Head(a)) - Rank(Head(b)))
    ELSE PrimaryCompare(Tail(a), Tail(b))

RECURSIVE CaseCompare(_, _)
CaseCompare(a, b) ==
    IF a = <<>> \/ b = <<>> THEN 0
    ELSE IF Head(a) = Head(b) THEN CaseCompare(Tail(a), Tail(b))
    ELSE IF Head(a) = LowerChar(Head(a)) THEN -1 ELSE 1

\* String.prototype.localeCompare on the model's alphabet: letters first
\* compared without case, a lower-case letter before its upper-case form
\* when the strings differ in case only.
localeCompare(a, b) ==
    IF PrimaryCompare(a, b) # 0 THEN PrimaryCompare(a, b) ELSE CaseCompare(a, b)

\* --------------------------------------------------------------- numbers
Abs(n) == IF n < 0 THEN -n ELSE n
Max(a, b) == IF a >= b THEN a ELSE b

Zero == [num |-> 0, den |-> 1]

\* Sign of the JavaScript difference a - b of two non-negative quotients
\* a = a.num / a.den and b = b.num / b.den (den > 0).
SubSign(a, b) ==
    IF a.num = b.num THEN (IF a.num = 0 THEN 0 ELSE Sign(b.den - a.den))
    ELSE IF a.den = b.den THEN Sign(a.num - b.num)
    ELSE Sign(a.num * b.den - b.num * a.den)

\* ------------------------------------------------------------- constants
DISTANCE_OPTIONS == <<1000, 3000, 5000, 10000, 20000>>
SORT_OPTIONS == <<"relevance", "distance", "az", "rating">>
DefaultDistanceLimit == 10000
DefaultReviewStars == 5
MinRadius == 3000
RelevanceScale == 1000000
PlaceTries == 3
LocationTries == 2
ListCap == 60

\* The meridian of the model (78.4867 degrees east, in micro-degrees) and
\* the fallback centre of the geolocation error callback (17.385 degrees
\* north, as metres of arc).
Meridian == 78486700
FallbackLat == 1933124

\* haversineMeters for two points of one meridian: dLon = 0, so
\* a = sin^2(dLat / 2), c = |dLat| and R * c is the arc between the latitudes.
haversineMeters(lat1, lon1, lat2, lon2) == Abs(lat2 - lat1)

\* ---------------------------------------------------------- optional fields
Absent == <<>>
Some(v) == <<v>>

\* JavaScript truthiness of an optional number: present and not 0.
Truthy(x) == x # Absent /\ x[1] # 0

\* The JavaScript a || b on optional values.
Or(a, b) == IF Truthy(a) THEN a ELSE b

\* ---------------------------------------------------------------- reviews
\* getReviewStats: mean (as a fraction) and count of the stars recorded for
\* a place id; mean 0 and count 0 when the place has no review.
RECURSIVE SumStars(_)
SumStars(list) ==
    IF list = <<>> THEN 0 ELSE Head(list).stars + SumStars(Tail(list))

getReviewStats(revs, placeId) ==
    LET list == revs[placeId] IN
    IF Len(list) = 0 THEN [avg |-> Zero, count |-> 0]
    ELSE [avg |-> [num |-> SumStars(list), den |-> Len(list)], count |-> Len(list)]

\* --------------------------------------------------------------- pipeline
\* Array.prototype.filter: the elements satisfying Keep, in order.
Filter(arr, Keep(_)) == SelectSeq(arr, Keep)

\* Array.prototype.sort with comparator Cmp. The sort is stable, so with a
\* consistent comparator the element at index i ends after exactly the
\* elements that compare before it, or compare equal and precede it.
Sort(arr, Cmp(_, _)) ==
    LET Before(a, i) == {j \in 1..Len(a) :
                           \/ Cmp(a[j], a[i]) < 0
                           \/ Cmp(a[j], a[i]) = 0 /\ j < i}
        Sorted(a) == [k \in 1..Len(a) |->
                        a[CHOOSE i \in 1..Len(a) : Cardinality(Before(a, i)) + 1 = k]]
    IN CHOOSE s \in {Sorted(a) : a \in {arr}} : TRUE

\* Variants of the comparators and of the distance test with a slip in them.
CompareDistance_Descending(a, b) == Sign(b.distance - a.distance)
CompareRating_Ascending(revs, a, b) ==
    SubSign(getReviewStats(revs, a.id).avg, getReviewStats(revs, b.id).avg)
WithinLimit_ByRadius(p, limit) == p.distance <= Max(limit, MinRadius)
WithinLimit_Strict(p, limit) == p.distance < limit

\* The comparators of the four sort keys.
CompareDistance(a, b) == Sign(a.distance - b.distance)
CompareAz(a, b) == localeCompare(a.name, b.name)
CompareRating(revs, a, b) ==
    SubSign(getReviewStats(revs, b.id).avg, getReviewStats(revs, a.id).avg)
CompareRelevance(a, b) == SubSign(b.relevance, a.relevance)

\* A text filter that compares the name as it is written.
NameMatches_CaseSensitive(p, q) == includes(p.name, q)

\* The test of the distance filter and of the text filter.
WithinLimit(p, limit) == p.distance <= limit
NameMatches(p, q) == includes(toLowerCase(p.name), q)

\* Which array a variable of the computation refers to: the places state,
\* the favorites state, or an array of its own. filter returns a new array
\* and [...arr] copies; sort works in place on the array it is called on.
\* A sort without the copy works on the array the variable refers to.
SpreadCopy_Alias(ref) == ref

FilterResult(ref) == "own"
SpreadCopy(ref) == "own"

\* A saved tab that lists the places of the result set that are favorites.
Base_SavedAmongResults(t, pl, favs) ==
    IF t = "saved"
    THEN SelectSeq(pl, LAMBDA p : \E i \in 1..Len(favs) : favs[i].id = p.id)
    ELSE pl

\* The base collection of the pipeline: the favorites on the saved tab, the
\* result set otherwise.
Base(t, pl, favs) == IF t = "saved" THEN favs ELSE pl

\* The useMemo body of visiblePlaces. Returns the output (out) and the two
\* state arrays as the computation leaves them.
visiblePlaces(pl, favs, revs, t, key, limit, text) ==
    LET q == toLowerCase(trim(text))
        base == Base(t, pl, favs)
        baseRef == IF t = "saved" THEN "favorites" ELSE "places"
        InLimit(p) == WithinLimit(p, limit)
        arr1 == IF t = "discover" THEN Filter(base, InLimit) ELSE base
        ref1 == IF t = "discover" THEN FilterResult(baseRef) ELSE baseRef
        Matches(p) == NameMatches(p, q)
        arr2 == IF q # <<>> THEN Filter(arr1, Matches) ELSE arr1
        ref2 == IF q # <<>> THEN FilterResult(ref1) ELSE ref1
        ByRating(a, b) == CompareRating(revs, a, b)
        sorted == IF key = "distance" THEN Sort(arr2, CompareDistance)
                  ELSE IF key = "az" THEN Sort(arr2, CompareAz)
                  ELSE IF key = "rating" THEN Sort(arr2, ByRating)
                  ELSE Sort(arr2, CompareRelevance)
        ref3 == SpreadCopy(ref2)
    IN CHOOSE r \in {[out |-> s,
                      places |-> IF ref3 = "places" THEN s ELSE pl,
                      favorites |-> IF ref3 = "favorites" THEN s ELSE favs] :
                        s \in {sorted}} : TRUE

\* ------------------------------------------------------------------ ingest
\* relevance = (1 / (dist + 1)) * 1000000, as a fraction.
Relevance(dist) == [num |-> RelevanceScale, den |-> dist + 1]

\* A test of the latitude alone.
HasCoordinates_LatOnly(lat, lon) == Truthy(lat)

\* A record kept by the map callback of fetchPlaces: both coordinates are
\* truthy (present and not 0). A Place keeps its coordinates as they were
\* read: Some(v), and Absent would be a null coordinate.
HasCoordinates(lat, lon) == Truthy(lat) /\ Truthy(lon)

\* The map callback of fetchPlaces on one raw element: Absent (null) when a
\* coordinate is missing, else the Place, its distance and relevance taken
\* from the search centre c of the call.
IngestElement(el, c) ==
    LET lat == Or(el.lat, el.clat)
        lon == Or(el.lon, el.clon)
        name == IF el.name # <<>> THEN el.name ELSE Str_UnnamedPlace
        type == IF el.amenity # "" THEN el.amenity
                ELSE IF el.tourism # "" THEN el.tourism ELSE "place"
    IN IF ~HasCoordinates(lat, lon) THEN Absent
       ELSE LET dist == haversineMeters(c.lat, c.lng, lat[1], lon[1]) IN
            Some([id |-> el.id, name |-> name, type |-> type,
                  lat |-> lat, lon |-> lon, distance |-> dist,
                  relevance |-> Relevance(dist), savedAt |-> Absent])

\* (data.elements || []).map(...).filter(Boolean)
RECURSIVE IngestAll(_, _)
IngestAll(els, c) ==
    IF els = <<>> THEN <<>>
    ELSE LET r == IngestElement(Head(els), c) IN
         (IF r = Absent THEN <<>> ELSE <<r[1]>>) \o IngestAll(Tail(els), c)

Ingest(data, c) ==
    IngestAll(IF data.elements = Absent THEN <<>> ELSE data.elements[1], c)

\* ------------------------------------------------------ external services
Raw(id, lat, lon, clat, clon, name, amenity, tourism) ==
    [id |-> id, lat |-> lat, lon |-> lon, clat |-> clat, clon |-> clon,
     name |-> name, amenity |-> amenity, tourism |-> tourism]

\* Raw map elements: a node, a way with a computed centre, an unnamed node,
\* an element with a latitude and no longitude, a node on the equator.
ElCafe == Raw(1, Some(6000), Some(Meridian), Absent, Absent, Str_CornerCafe, "cafe", "")
ElStore == Raw(2, Absent, Absent, Some(7500), Some(Meridian), Str_BookStore, "library", "")
ElFar == Raw(3, Some(17000), Some(Meridian), Absent, Absent, <<>>, "", "museum")
ElNoLon == Raw(4, Some(6500), Absent, Absent, Absent, Str_Museum, "", "")
ElEquator == Raw(5, Some(0), Some(Meridian), Absent, Absent, Str_Museum, "cafe", "")

PlaceIds == 1..5

\* The radius of the query of fetchPlaces.
Radius(limit) == Max(limit, MinRadius)

\* What the map service may hold when a query reaches it.
FullDatabase == <<ElCafe, ElStore, ElFar, ElNoLon, ElEquator>>
Databases == {FullDatabase, <<ElFar, ElCafe>>}

\* The Overpass query: the elements around (radius, centre). An element
\* whose position the service cannot give is passed through as it is.
Around(el, c, radius) ==
    LET lat == Or(el.lat, el.clat) IN
    lat = Absent \/ haversineMeters(c.lat, c.lng, lat[1], Meridian) <= radius

Reply(db, c, radius) ==
    [elements |-> Some(SelectSeq(db, LAMBDA el : Around(el, c, radius)))]

\* The replies a query may get: the elements around, or a reply without an
\* elements field.
PlaceReplies(c, radius) ==
    {Reply(db, c, radius) : db \in Databases} \cup {[elements |-> Absent]}

\* What navigator.geolocation may report, and what the geocoder may answer.
Positions == {[lat |-> 5000, lng |-> Meridian]}
LocationReplies ==
    {<<>>, <<[lat |-> 9000, lon |-> Meridian, display_name |-> "Goa"]>>}

Center(lat, lng, label) == [lat |-> lat, lng |-> lng, label |-> label]

\* What the user may type or pick.
SearchTexts == {<<>>, Str_cafe}
PipeTexts == SearchTexts \cup {Str_blank, Str_cafePadded}
LocationTexts == {<<>>, Str_Goa}
ReviewTexts == {<<>>, Str_blank, Str_okPadded}
StarChoices == {1, 4, 5}
Tabs == {"discover", "saved"}

Range(f) == {f[i] : i \in DOMAIN f}
RemoveAt(seq, i) == SubSeq(seq, 1, i - 1) \o SubSeq(seq, i + 1, Len(seq))

\* ------------------------------------------------------------------- state
VARIABLES
    location,        \* useState: the detected position, Absent until known
    searchCenter,    \* useState: Absent or Some([lat, lng, label])
    customLocation,  \* useState: text of the "search other location" input
    places,          \* useState: the result set
    loading,         \* useState
    distanceLimit,   \* useState
    sortBy,          \* useState
    searchText,      \* useState
    tab,             \* useState: "discover" or "saved"
    selectedPlace,   \* useState: Absent or Some(place)
    favorites,       \* useState
    reviews,         \* useState: place id -> sequence of reviews, newest first
    reviewStars,     \* useState
    reviewText,      \* useState
    storage,         \* localStorage: the three documents
    placeReqs,       \* fetchPlaces calls awaiting fetchWithRetry, oldest first
    locReqs,         \* findOtherLocation calls awaiting fetchWithRetry
    geoPending,      \* getCurrentPosition has not called back yet
    lastAlert,       \* the last alert() shown
    now,             \* Date.now()
    visible,         \* the memoised visiblePlaces
    searchLog        \* history: the fetchPlaces calls of this page that have
                     \* ended, in the order they ended

vars == <<location, searchCenter, customLocation, places, loading,
          distanceLimit, sortBy, searchText, tab, selectedPlace, favorites,
          reviews, reviewStars, reviewText, storage, placeReqs, locReqs,
          geoPending, lastAlert, now, visible, searchLog>>

NoReviews == [id \in PlaceIds |-> <<>>]

EmptyStorage ==
    [favorites_places |-> <<>>, place_reviews |-> NoReviews,
     last_search_cache |-> Absent]

\* The result set and the search centre the offline-cache effect restores
\* from the documents st.
CachedPlaces(st) ==
    LET cache == st.last_search_cache IN
    IF cache # Absent /\ Len(cache[1].places) > 0 THEN cache[1].places ELSE <<>>

CachedCenter(st) ==
    LET cache == st.last_search_cache IN
    IF cache # Absent THEN cache[1].searchCenter ELSE Absent

\* The component after its first render and its mount effects, over the
\* localStorage documents st: the useState initialisers, the offline-cache
\* effect, and a geolocation request that has not answered yet.
Mounted(st) ==
    LET r == visiblePlaces(CachedPlaces(st), st.favorites_places, st.place_reviews,
                           "discover", "relevance", DefaultDistanceLimit, <<>>)
    IN [location |-> Absent, searchCenter |-> CachedCenter(st),
        places |-> r.places, favorites |-> r.favorites, visible |-> r.out,
        reviews |-> st.place_reviews]

Construct(st, m) ==
    /\ location = m.location
    /\ searchCenter = m.searchCenter
    /\ customLocation = <<>>
    /\ places = m.places
    /\ loading = FALSE
    /\ distanceLimit = DefaultDistanceLimit
    /\ sortBy = "relevance"
    /\ searchText = <<>>
    /\ tab = "discover"
    /\ selectedPlace = Absent
    /\ favorites = m.favorites
    /\ reviews = m.reviews
    /\ reviewStars = DefaultReviewStars
    /\ reviewText = <<>>
    /\ storage = st
    /\ placeReqs = <<>>
    /\ locReqs = <<>>
    /\ geoPending = TRUE
    /\ lastAlert = "none"
    /\ visible = m.visible
    /\ searchLog = <<>>

\* ------------------------------------------------------ earlier sessions
\* Documents an earlier session of the program may have left in
\* localStorage. Times count from the load the model starts with, so the
\* times of an earlier session are negative.
GeoCenter == Center(5000, Meridian, "Your Location")
GoaCenter == Center(9000, Meridian, "Goa")

\* The result sets of a search around c at the widest radius.
EarlierResults(c) ==
    {Ingest(data, c) : data \in PlaceReplies(c, Radius(20000))} \ {<<>>}

EarlierCaches ==
    {Some([time |-> -1, places |-> pl, searchCenter |-> Some(GeoCenter)]) :
        pl \in EarlierResults(GeoCenter)}

\* Favorites: the last one or two entries of an earlier result set, saved
\* one after the other (the newest is first).
SavedFrom(pl, k) ==
    [i \in 1..k |-> [pl[Len(pl) - k + i] EXCEPT !.savedAt = Some(-1 - i)]]

EarlierFavorites ==
    {<<>>} \cup {SavedFrom(pl, 2) : pl \in EarlierResults(GeoCenter)}
           \cup {SavedFrom(pl, 1) : pl \in EarlierResults(GoaCenter)}

EarlierReview(stars, time) == [stars |-> stars, text |-> Str_ok, time |-> time]

EarlierReviews ==
    {NoReviews,
     [NoReviews EXCEPT ![2] = <<EarlierReview(4, -1), EarlierReview(5, -2)>>],
     [NoReviews EXCEPT ![1] = <<EarlierReview(4, -1)>>,
                       ![3] = <<EarlierReview(5, -2), EarlierReview(1, -3)>>],
     [NoReviews EXCEPT ![1] = <<EarlierReview(4, -1)>>,
                       ![2] = <<EarlierReview(4, -2), EarlierReview(4, -3)>>]}

Documents(favs, revs, cache) ==
    [favorites_places |-> favs, place_reviews |-> revs, last_search_cache |-> cache]

\* A first visit, and a return to the documents of an earlier session.
FirstVisit == EmptyStorage
ReturnResults ==
    Ingest(Reply(FullDatabase, GeoCenter, Radius(20000)), GeoCenter)

ReturnVisit ==
    Documents(SavedFrom(ReturnResults, 1),
              [NoReviews EXCEPT ![2] = <<EarlierReview(4, -1)>>],
              Some([time |-> -1, places |-> ReturnResults,
                    searchCenter |-> Some(GeoCenter)]))

Init ==
    /\ now = 0
    /\ \E st \in {FirstVisit, ReturnVisit} : Construct(st, Mounted(st))

\* The states the pipeline is examined from: the page is up over the
\* documents of an earlier session, with any choice of tab, sort key,
\* distance limit and search text.
PipeInit ==
    /\ now = 0
    /\ \E favs \in EarlierFavorites, revs \in EarlierReviews, cache \in EarlierCaches,
          t \in Tabs, key \in Range(SORT_OPTIONS),
          limit \in Range(DISTANCE_OPTIONS), text \in PipeTexts :
         LET st == Documents(favs, revs, cache)
             r == visiblePlaces(CachedPlaces(st), favs, revs, t, key, limit, text)
         IN /\ location = Some([lat |-> GeoCenter.lat, lng |-> GeoCenter.lng])
            /\ searchCenter = Some(GeoCenter)
            /\ customLocation = <<>>
            /\ places = r.places
            /\ loading = FALSE
            /\ distanceLimit = limit
            /\ sortBy = key
            /\ searchText = text
            /\ tab = t
            /\ selectedPlace = Absent
            /\ favorites = r.favorites
            /\ reviews = revs
            /\ reviewStars = DefaultReviewStars
            /\ reviewText = <<>>
            /\ storage = st
            /\ placeReqs = <<>>
            /\ locReqs = <<>>
            /\ geoPending = FALSE
            /\ lastAlert = "none"
            /\ visible = r.out
            /\ searchLog = <<>>

\* Every step happens at a later time than the one before.
Tick == now < MaxNow /\ now' = now + 1

\* The page is rendered (and the user can act) once both are known.
Rendered == location # Absent /\ searchCenter # Absent

\* The re-render after a change of a dependency of the useMemo: visiblePlaces
\* runs on the new values.
Render(pl, favs, revs, t, key, limit, text) ==
    \E r \in {visiblePlaces(pl, favs, revs, t, key, limit, text)} :
    /\ places' = r.places
    /\ favorites' = r.favorites
    /\ visible' = r.out

\* ---------------------------------------------------------------- load
\* The page is loaded again: the component is constructed from localStorage
\* and what was in flight is gone.
Reload ==
    /\ Tick
    /\ LET m == Mounted(storage) IN
       /\ location' = m.location
       /\ searchCenter' = m.searchCenter
       /\ places' = m.places
       /\ favorites' = m.favorites
       /\ reviews' = m.reviews
       /\ visible' = m.visible
    /\ customLocation' = <<>>
    /\ loading' = FALSE
    /\ distanceLimit' = DefaultDistanceLimit
    /\ sortBy' = "relevance"
    /\ searchText' = <<>>
    /\ tab' = "discover"
    /\ selectedPlace' = Absent
    /\ reviewStars' = DefaultReviewStars
    /\ reviewText' = <<>>
    /\ placeReqs' = <<>>
    /\ locReqs' = <<>>
    /\ geoPending' = TRUE
    /\ lastAlert' = "none"
    /\ searchLog' = <<>>
    /\ UNCHANGED storage

\* getCurrentPosition succeeds.
GeoSuccess(pos) ==
    /\ Tick
    /\ geoPending
    /\ geoPending' = FALSE
    /\ location' = Some(pos)
    /\ searchCenter' = Some(Center(pos.lat, pos.lng, "Your Location"))
    /\ UNCHANGED <<searchLog,
                   customLocation, places, loading, distanceLimit, sortBy,
                   searchText, tab, selectedPlace, favorites, reviews,
                   reviewStars, reviewText, storage, placeReqs, locReqs,
                   lastAlert, visible>>

\* getCurrentPosition fails: the fallback centre.
GeoError ==
    /\ Tick
    /\ geoPending
    /\ geoPending' = FALSE
    /\ location' = Some([lat |-> FallbackLat, lng |-> Meridian])
    /\ searchCenter' = Some(Center(FallbackLat, Meridian, "Hyderabad (Fallback)"))
    /\ UNCHANGED <<searchLog,
                   customLocation, places, loading, distanceLimit, sortBy,
                   searchText, tab, selectedPlace, favorites, reviews,
                   reviewStars, reviewText, storage, placeReqs, locReqs,
                   lastAlert, visible>>

\* ------------------------------------------------------------ view state
SetTab(t) ==
    /\ Tick
    /\ Rendered
    /\ t # tab
    /\ tab' = t
    /\ Render(places, favorites, reviews, t, sortBy, distanceLimit, searchText)
    /\ UNCHANGED <<searchLog,
                   location, searchCenter, customLocation, loading,
                   distanceLimit, sortBy, searchText, selectedPlace, reviews,
                   reviewStars, reviewText, storage, placeReqs, locReqs,
                   geoPending, lastAlert>>

SetSortBy(key) ==
    /\ Tick
    /\ Rendered
    /\ key # sortBy
    /\ sortBy' = key
    /\ Render(places, favorites, reviews, tab, key, distanceLimit, searchText)
    /\ UNCHANGED <<searchLog,
                   location, searchCenter, customLocation, loading,
                   distanceLimit, searchText, tab, selectedPlace, reviews,
                   reviewStars, reviewText, storage, placeReqs, locReqs,
                   geoPending, lastAlert>>

\* The distance select is disabled on the saved tab.
SetDistanceLimit(limit) ==
    /\ Tick
    /\ Rendered
    /\ tab # "saved"
    /\ limit # distanceLimit
    /\ distanceLimit' = limit
    /\ Render(places, favorites, reviews, tab, sortBy, limit, searchText)
    /\ UNCHANGED <<searchLog,
                   location, searchCenter, customLocation, loading, sortBy,
                   searchText, tab, selectedPlace, reviews, reviewStars,
                   reviewText, storage, placeReqs, locReqs, geoPending,
                   lastAlert>>

SetSearchText(text) ==
    /\ Tick
    /\ Rendered
    /\ text # searchText
    /\ searchText' = text
    /\ Render(places, favorites, reviews, tab, sortBy, distanceLimit, text)
    /\ UNCHANGED <<searchLog,
                   location, searchCenter, customLocation, loading,
                   distanceLimit, sortBy, tab, selectedPlace, reviews,
                   reviewStars, reviewText, storage, placeReqs, locReqs,
                   geoPending, lastAlert>>

SetCustomLocation(text) ==
    /\ Tick
    /\ Rendered
    /\ text # customLocation
    /\ customLocation' = text
    /\ UNCHANGED <<searchLog,
                   location, searchCenter, places, loading, distanceLimit,
                   sortBy, searchText, tab, selectedPlace, favorites, reviews,
                   reviewStars, reviewText, storage, placeReqs, locReqs,
                   geoPending, lastAlert, visible>>

\* "Open" on a card of the list (its first ListCap entries) or a click on a
\* marker of the map (all of visiblePlaces).
SetSelectedPlace(p) ==
    /\ Tick
    /\ Rendered
    /\ p \in Range(visible)
    /\ selectedPlace # Some(p)
    /\ selectedPlace' = Some(p)
    /\ UNCHANGED <<searchLog,
                   location, searchCenter, customLocation, places, loading,
                   distanceLimit, sortBy, searchText, tab, favorites, reviews,
                   reviewStars, reviewText, storage, placeReqs, locReqs,
                   geoPending, lastAlert, visible>>

\* The star select and the comment box of the details area.
SetReviewStars(n) ==
    /\ Tick
    /\ Rendered
    /\ selectedPlace # Absent
    /\ n # reviewStars
    /\ reviewStars' = n
    /\ UNCHANGED <<searchLog,
                   location, searchCenter, customLocation, places, loading,
                   distanceLimit, sortBy, searchText, tab, selectedPlace,
                   favorites, reviews, reviewText, storage, placeReqs, locReqs,
                   geoPending, lastAlert, visible>>

SetReviewText(text) ==
    /\ Tick
    /\ Rendered
    /\ selectedPlace # Absent
    /\ text # reviewText
    /\ reviewText' = text
    /\ UNCHANGED <<searchLog,
                   location, searchCenter, customLocation, places, loading,
                   distanceLimit, sortBy, searchText, tab, selectedPlace,
                   favorites, reviews, reviewStars, storage, placeReqs, locReqs,
                   geoPending, lastAlert, visible>>

\* ------------------------------------------------------------- favorites
isFav(favs, id) == \E i \in 1..Len(favs) : favs[i].id = id

\* Variants of the updater: the new entry put last, and membership tested
\* on the whole object instead of its id.
toggleFavUpdate_Last(prev, place, time) ==
    IF isFav(prev, place.id)
    THEN SelectSeq(prev, LAMBDA x : x.id # place.id)
    ELSE prev \o <<[place EXCEPT !.savedAt = Some(time)]>>

toggleFavUpdate_ByObject(prev, place, time) ==
    IF \E i \in 1..Len(prev) : prev[i] = place
    THEN SelectSeq(prev, LAMBDA x : x # place)
    ELSE <<[place EXCEPT !.savedAt = Some(time)]>> \o prev

\* The updater of toggleFav: drops the entries with the place's id when
\* there is one, else puts a snapshot of the place, stamped, at the front.
toggleFavUpdate(prev, place, time) ==
    IF isFav(prev, place.id)
    THEN SelectSeq(prev, LAMBDA x : x.id # place.id)
    ELSE <<[place EXCEPT !.savedAt = Some(time)]>> \o prev

\* The places the star buttons are bound to: the cards of the list and the
\* big button of the details area.
Starrable ==
    {visible[i] : i \in 1..(IF Len(visible) < ListCap THEN Len(visible) ELSE ListCap)}
        \cup (IF selectedPlace = Absent THEN {} ELSE {selectedPlace[1]})

\* toggleFav, the re-render and the effect that saves the favorites.
ToggleFav(p) ==
    /\ Tick
    /\ Rendered
    /\ p \in Starrable
    /\ LET favs == toggleFavUpdate(favorites, p, now) IN
       /\ Len(favs) <= MaxFavs
       /\ Render(places, favs, reviews, tab, sortBy, distanceLimit, searchText)
    /\ storage' = [storage EXCEPT !.favorites_places = favorites']
    /\ UNCHANGED <<searchLog,
                   location, searchCenter, customLocation, loading,
                   distanceLimit, sortBy, searchText, tab, selectedPlace,
                   reviews, reviewStars, reviewText, placeReqs, locReqs,
                   geoPending, lastAlert>>

\* --------------------------------------------------------------- reviews
\* A variant of the updater that puts the new review last.
addReviewUpdate_Last(prev, placeId, review) ==
    [prev EXCEPT ![placeId] = @ \o <<review>>]

\* The updater of addReview: the new review before the old ones.
addReviewUpdate(prev, placeId, review) ==
    [prev EXCEPT ![placeId] = <<review>> \o @]

\* addReview(selectedPlace.id): a comment that trims to nothing is refused
\* with a prompt; else the review is recorded, the form is reset, and the
\* effect saves the reviews.
AddReview ==
    /\ Tick
    /\ Rendered
    /\ selectedPlace # Absent
    /\ LET placeId == selectedPlace[1].id
           text == trim(reviewText)
           newReview == [stars |-> reviewStars, text |-> text, time |-> now]
       IN IF text = <<>>
          THEN /\ lastAlert' = "Please type a review comment."
               /\ UNCHANGED <<places, favorites, visible, reviews, reviewStars,
                              reviewText, storage>>
          ELSE /\ Len(reviews[placeId]) < MaxReviews
               /\ reviews' = addReviewUpdate(reviews, placeId, newReview)
               /\ Render(places, favorites, reviews', tab, sortBy,
                         distanceLimit, searchText)
               /\ reviewStars' = DefaultReviewStars
               /\ reviewText' = <<>>
               /\ lastAlert' = "Review added!"
               /\ storage' = [storage EXCEPT !.place_reviews = reviews']
    /\ UNCHANGED <<searchLog,
                   location, searchCenter, customLocation, loading,
                   distanceLimit, sortBy, searchText, tab, selectedPlace,
                   placeReqs, locReqs, geoPending>>

\* -------------------------------------------------------- fetchWithRetry
\* A catch block that gives up one attempt late.
AfterFailure_OneMore(attempt, tries) ==
    IF attempt = tries + 1 THEN "throw" ELSE "retry"

\* The catch block of fetchWithRetry after the failure of attempt number
\* `attempt` of `tries`: the error is thrown after the last attempt, else a
\* notice is shown and the next attempt follows the delay.
AfterFailure(attempt, tries) == IF attempt = tries THEN "throw" ELSE "retry"

\* fetchWithRetry(url, tries, delayMs) over the outcomes of the attempts it
\* may make (outcomes[k] is TRUE when attempt k gets a response that is ok):
\* how the call ends, the number of the attempt it ends in, and the number of
\* notices it has shown. The loop ends without a value when no attempt is
\* left.
RECURSIVE RetryLoop(_, _, _, _)
RetryLoop(outcomes, tries, attempt, notices) ==
    IF attempt > tries
    THEN [end |-> "undefined", attempts |-> attempt - 1, notices |-> notices]
    ELSE IF outcomes[attempt]
    THEN [end |-> "return", attempts |-> attempt, notices |-> notices]
    ELSE IF AfterFailure(attempt, tries) = "throw"
    THEN [end |-> "throw", attempts |-> attempt, notices |-> notices]
    ELSE RetryLoop(outcomes, tries, attempt + 1, notices + 1)

fetchWithRetry(outcomes, tries) == RetryLoop(outcomes, tries, 1, 0)

\* ------------------------------------------------------------ fetchPlaces
\* A fetchPlaces that keeps the displayed results while it loads.
ResultsWhileLoading_Kept == places

\* setPlaces([]) at the start of fetchPlaces.
ResultsWhileLoading == <<>>

\* What fetchPlaces does before it awaits: the button is disabled on the
\* saved tab and the call returns at once without a search centre. The call
\* keeps the search centre it was made with; `shown` records the result set
\* that was displayed when it was made and `sent` the time it was made at.
FetchPlaces ==
    /\ Tick
    /\ Rendered
    /\ tab # "saved"
    /\ Len(placeReqs) < MaxInFlight
    /\ loading' = TRUE
    /\ Render(ResultsWhileLoading, favorites, reviews, tab, sortBy,
              distanceLimit, searchText)
    /\ selectedPlace' = Absent
    /\ placeReqs' = Append(placeReqs,
                      [center |-> searchCenter[1], radius |-> Radius(distanceLimit),
                       attempt |-> 1, notices |-> 0, shown |-> places,
                       sent |-> now])
    /\ UNCHANGED <<searchLog,
                   location, searchCenter, customLocation, distanceLimit,
                   sortBy, searchText, tab, reviews, reviewStars, reviewText,
                   storage, locReqs, geoPending, lastAlert>>

\* The entry of the history for a call that has ended.
Ended(req, ok, results) ==
    [sent |-> req.sent, ok |-> ok, attempts |-> req.attempt,
     notices |-> req.notices, results |-> results]

\* A fetchPlaces that applies a response only if no call was made after the
\* one it answers.
SetPlacesOnArrival_LatestOnly(prev, results, reqs, i) ==
    IF \A j \in 1..Len(reqs) : reqs[j].sent <= reqs[i].sent THEN results ELSE prev

\* setPlaces(results): the result set after the response to call i of the
\* calls reqs in flight has been mapped to results, prev being the result
\* set before.
SetPlacesOnArrival(prev, results, reqs, i) == results

\* An attempt of call i succeeds with reply data: the results replace the
\* result set and are written, with the centre of the call, to the cache.
PlacesArrive(i, data) ==
    /\ Tick
    /\ i \in 1..Len(placeReqs)
    /\ data \in PlaceReplies(placeReqs[i].center, placeReqs[i].radius)
    /\ LET results == Ingest(data, placeReqs[i].center) IN
       /\ Render(SetPlacesOnArrival(places, results, placeReqs, i), favorites,
                 reviews, tab, sortBy, distanceLimit, searchText)
       /\ searchLog' = Append(searchLog, Ended(placeReqs[i], TRUE, results))
       /\ storage' = [storage EXCEPT !.last_search_cache =
                        Some([time |-> now, places |-> results,
                              searchCenter |-> Some(placeReqs[i].center)])]
    /\ loading' = FALSE
    /\ placeReqs' = RemoveAt(placeReqs, i)
    /\ UNCHANGED <<location, searchCenter, customLocation, distanceLimit,
                   sortBy, searchText, tab, selectedPlace, reviews, reviewStars,
                   reviewText, locReqs, geoPending, lastAlert>>

\* The failure notice of the catch block of fetchPlaces.
PlacesFailedNotice == "Places API busy for too long. Try again later."

\* An attempt of call i fails: a retry notice, or after the last attempt the
\* failure notice of fetchPlaces and the end of loading.
PlacesAttemptFails(i) ==
    /\ Tick
    /\ i \in 1..Len(placeReqs)
    /\ IF AfterFailure(placeReqs[i].attempt, PlaceTries) = "throw"
       THEN /\ lastAlert' = PlacesFailedNotice
            /\ loading' = FALSE
            /\ placeReqs' = RemoveAt(placeReqs, i)
            /\ searchLog' = Append(searchLog, Ended(placeReqs[i], FALSE, <<>>))
       ELSE /\ lastAlert' = "API busy. Retrying"
            /\ placeReqs' = [placeReqs EXCEPT ![i].attempt = @ + 1,
                                              ![i].notices = @ + 1]
            /\ UNCHANGED <<loading, searchLog>>
    /\ UNCHANGED <<location, searchCenter, customLocation, places,
                   distanceLimit, sortBy, searchText, tab, selectedPlace,
                   favorites, reviews, reviewStars, reviewText, storage,
                   locReqs, geoPending, visible>>

\* ------------------------------------------------------ findOtherLocation
\* What findOtherLocation does before it awaits: nothing for a blank query.
\* The call keeps the result set it was made with.
FindOtherLocation ==
    /\ Tick
    /\ Rendered
    /\ trim(customLocation) # <<>>
    /\ Len(locReqs) < MaxInFlight
    /\ locReqs' = Append(locReqs, [q |-> trim(customLocation), places |-> places,
                                   attempt |-> 1, notices |-> 0])
    /\ UNCHANGED <<searchLog,
                   location, searchCenter, customLocation, places, loading,
                   distanceLimit, sortBy, searchText, tab, selectedPlace,
                   favorites, reviews, reviewStars, reviewText, storage,
                   placeReqs, geoPending, lastAlert, visible>>

\* An attempt of call i succeeds with reply data: no candidate gives a
\* notice; else the first candidate becomes the search centre and is written
\* to the cache with the result set of the call.
LocationArrives(i, data) ==
    /\ Tick
    /\ i \in 1..Len(locReqs)
    /\ data \in LocationReplies
    /\ IF Len(data) = 0
       THEN /\ lastAlert' = "Location not found. Try another name."
            /\ UNCHANGED <<searchCenter, storage>>
       ELSE LET newCenter == Center(data[1].lat, data[1].lon, data[1].display_name) IN
            /\ searchCenter' = Some(newCenter)
            /\ lastAlert' = "Location set! Now click 'Find Places'"
            /\ storage' = [storage EXCEPT !.last_search_cache =
                             Some([time |-> now, places |-> locReqs[i].places,
                                   searchCenter |-> Some(newCenter)])]
    /\ locReqs' = RemoveAt(locReqs, i)
    /\ UNCHANGED <<searchLog,
                   location, customLocation, places, loading, distanceLimit,
                   sortBy, searchText, tab, selectedPlace, favorites, reviews,
                   reviewStars, reviewText, placeReqs, geoPending, visible>>

LocationAttemptFails(i) ==
    /\ Tick
    /\ i \in 1..Len(locReqs)
    /\ IF AfterFailure(locReqs[i].attempt, LocationTries) = "throw"
       THEN /\ lastAlert' = "Failed to search location."
            /\ locReqs' = RemoveAt(locReqs, i)
       ELSE /\ lastAlert' = "API busy. Retrying"
            /\ locReqs' = [locReqs EXCEPT ![i].attempt = @ + 1,
                                          ![i].notices = @ + 1]
    /\ UNCHANGED <<searchLog,
                   location, searchCenter, customLocation, places, loading,
                   distanceLimit, sortBy, searchText, tab, selectedPlace,
                   favorites, reviews, reviewStars, reviewText, storage,
                   placeReqs, geoPending, visible>>

\* ------------------------------------------------------------------ spec
Next ==
    \/ Reload
    \/ \E pos \in Positions : GeoSuccess(pos)
    \/ GeoError
    \/ \E t \in Tabs : SetTab(t)
    \/ \E key \in Range(SORT_OPTIONS) : SetSortBy(key)
    \/ \E limit \in Range(DISTANCE_OPTIONS) : SetDistanceLimit(limit)
    \/ \E text \in SearchTexts : SetSearchText(text)
    \/ \E text \in LocationTexts : SetCustomLocation(text)
    \/ \E p \in Range(visible) : SetSelectedPlace(p)
    \/ \E n \in StarChoices : SetReviewStars(n)
    \/ \E text \in ReviewTexts : SetReviewText(text)
    \/ \E p \in Starrable : ToggleFav(p)
    \/ AddReview
    \/ FetchPlaces
    \/ \E i \in 1..Len(placeReqs) :
          \E data \in PlaceReplies(placeReqs[i].center, placeReqs[i].radius) :
             PlacesArrive(i, data)
    \/ \E i \in 1..Len(placeReqs) : PlacesAttemptFails(i)
    \/ FindOtherLocation
    \/ \E i \in 1..Len(locReqs) : \E data \in LocationReplies : LocationArrives(i, data)
    \/ \E i \in 1..Len(locReqs) : LocationAttemptFails(i)

Spec == Init /\ [][Next]_vars

\* The pipeline on its own: only the inputs of visiblePlaces that the user
\* sets directly change.
NextPipe ==
    \/ \E t \in Tabs : SetTab(t)
    \/ \E key \in Range(SORT_OPTIONS) : SetSortBy(key)
    \/ \E limit \in Range(DISTANCE_OPTIONS) : SetDistanceLimit(limit)
    \/ \E text \in PipeTexts : SetSearchText(text)

SpecPipe == PipeInit /\ [][NextPipe]_vars


\* ---------------------------------------------------------------- claims
\* The search text as the pipeline uses it, and whether the text filter
\* lets p through.
Query == toLowerCase(trim(searchText))
TextKeeps(p) == Query = <<>> \/ includes(toLowerCase(p.name), Query)

\* a >= b for two fractions.
FracGE(a, b) ==
    IF a.num = b.num THEN a.num = 0 \/ a.den <= b.den
    ELSE a.num * b.den >= b.num * a.den

\* The mean of the stars recorded for a place id, read from the review
\* mapping.
MeanOf(id) ==
    IF reviews[id] = <<>> THEN Zero
    ELSE [num |-> SumStars(reviews[id]), den |-> Len(reviews[id])]

\* C1: on the discover tab every place of the output is within the distance
\* limit; on the saved tab no favorite is dropped for its distance: every
\* favorite the text filter lets through is in the output, however far.
C1_DistanceFilter ==
    /\ tab = "discover" =>
         \A i \in 1..Len(visible) : visible[i].distance <= distanceLimit
    /\ tab = "saved" =>
         \A i \in 1..Len(favorites) :
            TextKeeps(favorites[i]) => favorites[i] \in Range(visible)

\* C1 witness: the saved tab shows a favorite that is beyond the limit, while
\* the result set holds a place the discover tab would drop for its distance.
C1_Witness ==
    /\ now > 0
    /\ tab = "saved"
    /\ \E i \in 1..Len(visible) : visible[i].distance > distanceLimit
    /\ \E i \in 1..Len(places) : places[i].distance > distanceLimit

\* C2: on the discover tab every place of the result set that is within the
\* limit (the limit itself included) and passes the text filter is in the
\* output exactly once, and on either tab the output holds only elements of
\* the base collection.
C2_InclusiveAndExact ==
    /\ tab = "discover" =>
         \A i \in 1..Len(places) :
            (places[i].distance <= distanceLimit /\ TextKeeps(places[i])) =>
               Cardinality({j \in 1..Len(visible) : visible[j] = places[i]}) = 1
    /\ Range(visible) \subseteq Range(IF tab = "saved" THEN favorites ELSE places)

\* C2 witness: a place exactly at the limit is shown, next to a place of the
\* result set that is not.
C2_Witness ==
    /\ now > 0
    /\ tab = "discover"
    /\ \E i \in 1..Len(visible) : visible[i].distance = distanceLimit
    /\ Len(visible) < Len(places)

\* The output of the pipeline on the current state under sort key `key`.
OutputUnder(key) ==
    visiblePlaces(places, favorites, reviews, tab, key, distanceLimit, searchText).out

NonIncreasingRelevance(out) ==
    \A i, j \in 1..Len(out) : i < j => FracGE(out[i].relevance, out[j].relevance)

\* C3: sorted by distance the output is non-decreasing in distance; sorted
\* by relevance, and under a sort key the code does not know, it is
\* non-increasing in relevance.
C3_SortedOutput ==
    /\ sortBy = "distance" =>
         \A i, j \in 1..Len(visible) :
            i < j => visible[i].distance <= visible[j].distance
    /\ sortBy = "relevance" => NonIncreasingRelevance(visible)
    /\ NonIncreasingRelevance(OutputUnder("popularity"))

\* C3 witness: sorted by distance, the output shows two places in the other
\* order than the result set holds them.
C3_Witness ==
    /\ now > 0
    /\ sortBy = "distance"
    /\ tab = "discover"
    /\ \E i, j \in 1..Len(places) :
          /\ i < j
          /\ places[i].distance > places[j].distance
          /\ \E k, l \in 1..Len(visible) :
                k < l /\ visible[k] = places[j] /\ visible[l] = places[i]

\* C4: sorted by rating the output is in descending order of the mean of
\* the stars of each place, and a place without reviews comes after every
\* place with a review.
C4_RatingOrder ==
    sortBy = "rating" =>
      \A i, j \in 1..Len(visible) :
         i < j =>
           /\ FracGE(MeanOf(visible[i].id), MeanOf(visible[j].id))
           /\ reviews[visible[i].id] = <<>> => reviews[visible[j].id] = <<>>

\* C4 witness: sorted by rating, a reviewed place is shown before a place
\* without reviews that precedes it in the base collection, and two reviewed
\* places with different means are shown.
C4_Witness ==
    /\ now > 0
    /\ sortBy = "rating"
    /\ tab = "discover"
    /\ \E i, j \in 1..Len(places) :
          /\ i < j
          /\ reviews[places[i].id] = <<>>
          /\ reviews[places[j].id] # <<>>
          /\ \E k, l \in 1..Len(visible) :
                k < l /\ visible[k] = places[j] /\ visible[l] = places[i]
    /\ \E k, l \in 1..Len(visible) :
          /\ reviews[visible[k].id] # <<>>
          /\ reviews[visible[l].id] # <<>>
          /\ MeanOf(visible[k].id) # MeanOf(visible[l].id)

\* C9: a recomputation of visiblePlaces after a change of the tab, the sort
\* key, the distance limit or the search text leaves the result set and the
\* favorites as they were, element for element.
C9_InputsNotMutated ==
    [][(tab' # tab \/ sortBy' # sortBy \/ distanceLimit' # distanceLimit
          \/ searchText' # searchText)
         => (places' = places /\ favorites' = favorites)]_vars

\* C9 witness: a recomputation has sorted the favorites themselves (no filter
\* ran before the sort) into another order than the collection has.
C9_Witness ==
    /\ now > 0
    /\ tab = "saved"
    /\ Query = <<>>
    /\ Len(visible) = Len(favorites)
    /\ visible # favorites

NoDuplicateIds(favs) ==
    \A i, j \in 1..Len(favs) : favs[i].id = favs[j].id => i = j

\* C5: toggleFav of a place whose id is among the favorites takes that one
\* entry out and leaves the others as they were, in order; toggleFav of a
\* place whose id is not among them puts its snapshot first, stamped with the
\* time of the call, before the others. So a second toggle brings the id back.
C5_ToggleFav ==
    [][\A p \in Starrable :
         ToggleFav(p) =>
            IF isFav(favorites, p.id)
            THEN /\ ~isFav(favorites', p.id)
                 /\ \E k \in 1..Len(favorites) :
                       /\ favorites[k].id = p.id
                       /\ favorites' = RemoveAt(favorites, k)
            ELSE /\ Len(favorites') = Len(favorites) + 1
                 /\ favorites'[1].id = p.id
                 /\ favorites'[1].savedAt = Some(now)
                 /\ Tail(favorites') = favorites]_vars

\* C5 witness: on a return visit the favorite saved by the earlier session
\* has been toggled off and on again: it is back, with a stamp of this
\* session, in front of a favorite added in between.
C5_Witness ==
    /\ storage.last_search_cache # Absent
    /\ storage.last_search_cache[1].time < 0
    /\ Len(favorites) = 2
    /\ favorites[1].id = 3
    /\ favorites[1].savedAt # Absent
    /\ favorites[1].savedAt[1] > favorites[2].savedAt[1]
    /\ favorites[2].savedAt[1] > 0

\* C6: the favorites never hold two entries with the same place id.
C6_NoDuplicateFavorites == NoDuplicateIds(favorites)

\* C6 witness: two favorites: one saved in this session in front of one kept
\* from the earlier session, whose place is in the result set as well.
C6_Witness ==
    /\ Len(favorites) = 2
    /\ favorites[1].savedAt[1] > 0
    /\ favorites[2].savedAt[1] < 0
    /\ \E i \in 1..Len(places) : places[i].id = favorites[2].id

\* C7: a step changes the reviews of at most the selected place, and only by
\* putting one review, stamped with the time of the call and carrying the
\* pending stars and the trimmed pending comment, before the reviews the
\* place had; nothing removes or alters a review.
C7_ReviewsAppendOnly ==
    [][\A id \in PlaceIds :
          \/ reviews'[id] = reviews[id]
          \/ /\ selectedPlace # Absent
             /\ selectedPlace[1].id = id
             /\ reviews'[id] # <<>>
             /\ Tail(reviews'[id]) = reviews[id]
             /\ Head(reviews'[id]) =
                  [stars |-> reviewStars, text |-> trim(reviewText), time |-> now]
             /\ \A other \in PlaceIds \ {id} : reviews'[other] = reviews[other]]_vars

\* C7 witness: a place that had a review from the earlier session has a
\* review of this session before it.
C7_Witness ==
    \E id \in PlaceIds :
       /\ Len(reviews[id]) = 2
       /\ reviews[id][1].time > 0
       /\ reviews[id][2].time < 0
       /\ storage.place_reviews = reviews

\* The step that ends call i of fetchPlaces in failure: its last attempt
\* fails.
SearchFails(i) ==
    /\ i \in 1..Len(placeReqs)
    /\ placeReqs[i].attempt = PlaceTries
    /\ PlacesAttemptFails(i)

\* C8 as the specification words it: after the failure the displayed result
\* set is the one that was displayed when the search was started.
C8_StaleResultsKept ==
    [][\A i \in 1..Len(placeReqs) :
          SearchFails(i) => places' = placeReqs[i].shown]_vars

\* C8 as the code has it: the failure of the last attempt shows the failure
\* notice, ends loading and changes neither the result set, the output, the
\* favorites, the reviews nor the documents in localStorage; the result set
\* that was displayed was emptied when the search was started.
C8_FailureKeepsStateStartClears ==
    [][/\ \A i \in 1..Len(placeReqs) :
            SearchFails(i) =>
               /\ lastAlert' = PlacesFailedNotice
               /\ ~loading'
               /\ UNCHANGED <<places, visible, favorites, reviews, storage,
                              searchCenter, selectedPlace>>
       /\ FetchPlaces => (places' = <<>> /\ selectedPlace' = Absent /\ loading')]_vars

\* C8 witness: a search started over a displayed result set has failed for
\* good: the notice is up, loading is over, nothing is displayed, and the
\* cache still holds the earlier results.
C8_Witness ==
    /\ lastAlert = PlacesFailedNotice
    /\ ~loading
    /\ placeReqs = <<>>
    /\ places = <<>>
    /\ CachedPlaces(storage) # <<>>

\* C10: every Place of the result set, and every Place of the cached result
\* set the next load restores, has a latitude and a longitude that are
\* present and not 0, and stems from a raw element that gives both.
C10_PlacesHaveCoordinates ==
    \A p \in Range(places) \cup Range(CachedPlaces(storage)) :
       /\ Truthy(p.lat)
       /\ Truthy(p.lon)
       /\ \E db \in Databases : \E el \in Range(db) :
             /\ el.id = p.id
             /\ Or(el.lat, el.clat) = p.lat
             /\ Or(el.lon, el.clon) = p.lon

\* C10 witness: the page was loaded again after a search of this session
\* whose reply held elements without a full coordinate pair; the restored
\* result set is the part of the reply that has one.
C10_Witness ==
    /\ geoPending
    /\ storage.last_search_cache # Absent
    /\ storage.last_search_cache[1].time > 0
    /\ Len(places) = 2
    /\ places[1].id = 1
    /\ places = storage.last_search_cache[1].places

\* The distance of a place from a centre, and whether the distance and the
\* relevance a Place carries are those from centre c.
DistanceFrom(c, p) == haversineMeters(c.lat, c.lng, p.lat[1], p.lon[1])

MeasuredFrom(c, p) ==
    /\ p.distance = DistanceFrom(c, p)
    /\ p.relevance = Relevance(DistanceFrom(c, p))

\* C11: whenever there is a search centre, every Place of the result set
\* carries the distance from that centre to the place, and the relevance
\* derived from that distance.
C11_DistanceFromActiveCenter ==
    searchCenter # Absent =>
       \A p \in Range(places) : MeasuredFrom(searchCenter[1], p)

\* The collection the text filter works on: the result set after the
\* distance filter on the discover tab, the favorites on the saved tab.
TextFilterInput ==
    IF tab = "discover"
    THEN SelectSeq(places, LAMBDA p : p.distance <= distanceLimit)
    ELSE favorites

\* C12 as the specification words it: with a search text that is not the
\* empty string a place is shown iff its name, in lower case, contains the
\* search text, in lower case; the empty string drops no place.
C12_RawTextMatch ==
    \A p \in Range(TextFilterInput) :
       p \in Range(visible) <=>
          (searchText = <<>> \/ includes(toLowerCase(p.name), toLowerCase(searchText)))

\* C12 as the code has it: the search text is first stripped of the white
\* space at its ends. A place is shown iff its name, in lower case, contains
\* the stripped search text, in lower case; a search text that is empty or
\* only white space drops no place. Nothing but the name is looked at.
C12_TrimmedTextMatch ==
    \A p \in Range(TextFilterInput) :
       p \in Range(visible) <=>
          \/ \A k \in 1..Len(searchText) : searchText[k] = " "
          \/ \E i \in 1..Len(p.name) : \E j \in i..Len(p.name) :
                /\ j - i + 1 = Len(Query)
                /\ \A k \in 1..Len(Query) :
                      LowerChar(p.name[i + k - 1]) = LowerChar(trim(searchText)[k])

\* C12 witness: the search text "cafe " has been typed; "Corner Cafe" is
\* shown and "Book Store", which the text filter was given, is not.
C12_Witness ==
    /\ now > 0
    /\ searchText = Str_cafePadded
    /\ \E i \in 1..Len(visible) : visible[i].name = Str_CornerCafe
    /\ \E i \in 1..Len(TextFilterInput) :
          /\ TextFilterInput[i].name = Str_BookStore
          /\ TextFilterInput[i] \notin Range(visible)

\* The fetchPlaces call of this page that ended last (there is one).
LastEnded == searchLog[Len(searchLog)]

\* C13: a response to any call in flight, the oldest included, makes the
\* result set exactly the places mapped from that response, whatever was
\* displayed and whatever else is in flight; and once no call is in flight
\* and the call that ended last ended with a response, the result set is
\* the one mapped from that response.
C13_ReplaceOnArrival ==
    [][/\ \A i \in 1..Len(placeReqs) :
            \A data \in PlaceReplies(placeReqs[i].center, placeReqs[i].radius) :
               PlacesArrive(i, data) =>
                  /\ places' = Ingest(data, placeReqs[i].center)
                  /\ placeReqs' = RemoveAt(placeReqs, i)
       /\ (placeReqs' = <<>> /\ searchLog' # <<>> /\ LastEnded'.ok) =>
             places' = LastEnded'.results]_vars

\* C13 witness: two calls overlapped; the one made later was answered first,
\* the one made first was answered last with other places, and its places
\* are the result set.
C13_Witness ==
    /\ placeReqs = <<>>
    /\ Len(searchLog) = 2
    /\ searchLog[1].ok /\ searchLog[2].ok
    /\ searchLog[1].sent > searchLog[2].sent
    /\ searchLog[1].results # <<>>
    /\ searchLog[2].results # <<>>
    /\ searchLog[1].results # searchLog[2].results
    /\ places = searchLog[2].results

\* Every run of fetchWithRetry with 1..MaxTries tries, over every course the
\* attempts may take.
RetryRuns ==
    [tries \in 1..MaxTries |->
        [outcomes \in [1..tries -> BOOLEAN] |-> fetchWithRetry(outcomes, tries)]]

\* A call of fetchWithRetry with `tries` tries that is at attempt number
\* `attempt` and has shown `notices` notices is within its bounds.
WithinTries(attempt, notices, tries) ==
    /\ attempt \in 1..tries
    /\ notices = attempt - 1

\* C14: fetchWithRetry makes at most `tries` attempts. It returns at the
\* first attempt that succeeds and makes no further one; it has then shown
\* one notice for each failed attempt before. When all attempts fail it
\* throws at attempt number `tries`, having shown tries - 1 notices. This
\* holds of every call of the program (fetchPlaces with 3 tries,
\* findOtherLocation with 2), in flight or ended, and of fetchWithRetry on
\* its own for 1..MaxTries tries.
C14_BoundedRetry ==
    /\ \A i \in 1..Len(placeReqs) :
          WithinTries(placeReqs[i].attempt, placeReqs[i].notices, PlaceTries)
    /\ \A i \in 1..Len(locReqs) :
          WithinTries(locReqs[i].attempt, locReqs[i].notices, LocationTries)
    /\ \A k \in 1..Len(searchLog) :
          /\ WithinTries(searchLog[k].attempts, searchLog[k].notices, PlaceTries)
          /\ ~searchLog[k].ok => searchLog[k].attempts = PlaceTries
    /\ \A tries \in 1..MaxTries : \A outcomes \in [1..tries -> BOOLEAN] :
          LET run == RetryRuns[tries][outcomes]
              successes == {k \in 1..tries : outcomes[k]}
          IN /\ WithinTries(run.attempts, run.notices, tries)
             /\ IF successes = {}
                THEN run.end = "throw" /\ run.attempts = tries
                ELSE /\ run.end = "return"
                     /\ run.attempts \in successes
                     /\ \A k \in successes : run.attempts <= k

\* C14 witness: a fetchPlaces call has ended with the error thrown at its
\* third attempt, after two retry notices; the notice of the failure is up.
C14_Witness ==
    \E k \in 1..Len(searchLog) :
       /\ ~searchLog[k].ok
       /\ searchLog[k].attempts = PlaceTries
       /\ searchLog[k].notices = PlaceTries - 1
       /\ lastAlert = PlacesFailedNotice

\* What the saved tab lists for the current state when no search text is
\* typed.
SavedView ==
    visiblePlaces(places, favorites, reviews, "saved", sortBy, distanceLimit,
                  <<>>).out

\* C15: a step that starts, answers or fails a place search, or changes the
\* search centre (any step that changes the result set, the search centre,
\* the calls in flight or the loading flag), leaves the favorites and their
\* document in localStorage as they were, and every favorite is listed by
\* the saved tab after it.
C15_FavoritesIndependent ==
    [][(places' # places \/ searchCenter' # searchCenter
          \/ placeReqs' # placeReqs \/ loading' # loading)
         => /\ favorites' = favorites
            /\ storage'.favorites_places = storage.favorites_places
            /\ Range(favorites) \subseteq Range(SavedView')
            /\ (tab' = "saved" /\ searchText' = <<>>) =>
                  Range(favorites) \subseteq Range(visible')]_vars

\* C15 witness: a search of this session has replaced the result set after
\* a favorite was saved; the new result set does not hold the favorite's
\* place, and the saved tab shows the favorite.
C15_Witness ==
    /\ tab = "saved"
    /\ searchLog # <<>>
    /\ LastEnded.ok
    /\ places = LastEnded.results
    /\ places # <<>>
    /\ \E i \in 1..Len(favorites) :
          /\ favorites[i].savedAt[1] < LastEnded.sent
          /\ \A j \in 1..Len(places) : places[j].id # favorites[i].id
          /\ favorites[i] \in Range(visible)

\* C16: the loading flag is set exactly when a fetchPlaces call is in
\* flight (made, and neither answered nor failed for good).
C16_LoadingIffOutstanding == loading <=> placeReqs # <<>>

\* A comment that is empty or holds white space only.
BlankComment(text) == \A k \in 1..Len(text) : text[k] = " "

\* C17: addReview with a pending comment that is empty or white space only
\* shows the prompt to type a comment and changes nothing else: not the
\* reviews, their document in localStorage, the pending stars or the
\* pending comment, nor the favorites, the result set or the selection.
C17_BlankCommentRejected ==
    [][(AddReview /\ BlankComment(reviewText)) =>
          /\ lastAlert' = "Please type a review comment."
          /\ UNCHANGED <<reviews, reviewStars, reviewText, storage, favorites,
                         places, visible, selectedPlace>>]_vars

\* C17 witness: with a place selected, four stars picked and a comment of
\* white space typed, the prompt is up; stars and comment are still pending
\* and no review of this session is recorded.
C17_Witness ==
    /\ lastAlert = "Please type a review comment."
    /\ selectedPlace # Absent
    /\ reviewText = Str_blank
    /\ reviewStars = 4
    /\ \A id \in PlaceIds : \A k \in 1..Len(reviews[id]) : reviews[id][k].time < 0

====
